---- MODULE Spec2Model ----
(***************************************************************************)
(* Model of the Traeger cloud client (custom_components/traeger/traeger.py)*)
(* of the ha-traeger Home Assistant integration: credential refresh, the   *)
(* command dispatcher, the MQTT worker thread and its paho callbacks, the  *)
(* device state store, the callback registry and the start / maintenance   *)
(* tick / kill lifecycle.                                                  *)
(*                                                                         *)
(* Two execution contexts are modelled: the asyncio loop (coroutines are   *)
(* atomic between awaits) and the worker threads running                   *)
(* mqtt_connect_func.  Time is kept relative to the current instant: the   *)
(* variables token_expires and mqtt_url_expires hold "expiry - time.time()"*)
(* in seconds, clamped below at 0, and the clock advances in steps of the  *)
(* 60 s refresh window, the one duration the code compares them with.      *)
(***************************************************************************)
EXTENDS Integers, Sequences, FiniteSets, TLC

\* ---------------------------------------------------------------- bounds
MaxGrills == 1      \* devices of the account (user.things)
MaxFns == 2         \* distinct callback closures entities may register
MaxQueue == 2       \* coroutines handed to the loop by run_coroutine_threadsafe
MaxThreads == 2     \* worker threads that can be alive at once
MaxCalls == 2       \* __send_command coroutines in flight at once
MaxTimers == 1      \* call_later timers pending at once
MaxCallbacks == 4   \* callbacks in one list of the registry

\* ------------------------------------------------------ program constants
TIMEOUT == 60           \* traeger.py: TIMEOUT
RefreshWindow == 60     \* the "< 60" of __refresh_token, __refresh_mqtt_url, __main
MinDelay == 30          \* the 30 of max(self.__mqtt_url_remaining(), 30)
IGNITING == 4           \* const.py: GrillMode.IGNITING
CUSTOM_COOK == 7        \* const.py: GrillMode.CUSTOM_COOK
GRILL_MIN_TEMP_F == 165 \* const.py: GRILL_MIN_TEMP_F
TempSwing == 20         \* sensor.py: temp_swing of a grill in Fahrenheit
FellOutTemp == 215      \* sensor.py: fell_out_temp of a grill in Fahrenheit
CloseTemp == 5          \* sensor.py: close_temp of a grill in Fahrenheit
\* the clock advances in steps of the refresh window
TimeStep == RefreshWindow
\* the longest validity the cloud grants in the model
MaxTTL == RefreshWindow
\* kill() coroutines suspended in the inloop poll at once: one per worker
MaxKills == MaxThreads

None == "None"
Ids == 1..MaxGrills
Fns == 1..MaxFns
Threads == 1..MaxThreads
Things == [i \in 1..MaxGrills |-> i]

\* GrillMode values used in payloads: IDLE, CUSTOM_COOK, COOL_DOWN
Modes == {3, 7, 8}

Max(a, b) == IF a >= b THEN a ELSE b
Min(a, b) == IF a <= b THEN a ELSE b

RECURSIVE SeqToSet(_)
SeqToSet(s) == IF s = <<>> THEN {} ELSE {Head(s)} \cup SeqToSet(Tail(s))

VARIABLES
    grills,                 \* self.grills
    grill_status,           \* self.grill_status : id -> Device
    grill_callbacks,        \* self.grill_callbacks : id -> list of callbacks
    grills_active,          \* self.grills_active
    mqtt_thread_running,    \* self.mqtt_thread_running
    mqtt_thread_refreshing, \* self.mqtt_thread_refreshing
    mqtt_client_inloop,     \* self.mqtt_client_inloop
    mqtt_client,            \* self.mqtt_client : None or the paho client state
    subacks,                \* SUBACKs the broker still owes the client
    mqtt_url,               \* self.mqtt_url : None or generation of the signed url
    mqtt_url_expires,       \* self.mqtt_url_expires - time.time(), clamped at 0
    token,                  \* self.token : None or generation of the id token
    token_expires,          \* self.token_expires - time.time(), clamped at 0
    task,                   \* self.task : None, "pending" or "spent" handle
    timers,                 \* number of call_later timers scheduled and live
    threads,                \* worker threads: position in mqtt_connect_func
    loop_queue,             \* coroutines scheduled with run_coroutine_threadsafe
    start_co,               \* the start() coroutine: position, request time
    main_co,                \* the __main() coroutine: position, request time
    kill_waiting,           \* kill() coroutines suspended in the inloop poll
    calls,                  \* __send_command coroutines: position, request time
    heating,                \* the HeatingState sensor: grill_state and its memory
    probe,                  \* the ProbeState sensor: state, accessory and its memory
    registered,             \* history: callbacks passed to set_callback_for_grill
    last                    \* history: the last operation and its outcome

vars == <<grills, grill_status, grill_callbacks, grills_active,
          mqtt_thread_running, mqtt_thread_refreshing, mqtt_client_inloop,
          mqtt_client, subacks, mqtt_url, mqtt_url_expires, token, token_expires,
          task, timers, threads, loop_queue, start_co, main_co, kill_waiting,
          calls, heating, probe, registered, last>>

\* ------------------------------------------------------------ data model

\* Optional record values: Absent is Python's None, Some(v) a present value.
Absent == {}
Some(v) == {v}

\* model.py Device, cut down to the parts the client reads or writes:
\* status.connected, status.system_status, status.acc and the four
\* sub-records handed out by the accessors.
Accs == <<[uuid |-> "p0", con |-> 1]>>
AccIds == {"p0", "p1"}

\* A well-formed update payload (a JSON document that parses into Device).
WellFormed == [kind : {"device"}, connected : BOOLEAN, system_status : Modes]
\* Payloads json.loads rejects, and JSON that from_dict(Device) rejects.
Malformed == [kind : {"not_json", "not_a_device"}, connected : {FALSE},
              system_status : {0}]
Payloads == WellFormed \cup Malformed
\* json.loads(message.payload) and from_dict(Device, data) both succeed
Parses(payload) == payload.kind = "device"

FromDictConnected(d, data) ==
    [thingName |-> d,
     status    |-> [connected |-> TRUE,
                    system_status |-> data.system_status,
                    acc |-> Accs],
     details   |-> <<"details", d>>,
     limits    |-> <<"limits", d>>,
     settings  |-> <<"settings", d>>,
     features  |-> [thingName |-> d, pellet_sensor_connected |-> 1]]

\* from_dict(data_class=Device, data=json.loads(payload))
FromDict(d, data) ==
    [thingName |-> d,
     status    |-> [connected |-> data.connected,
                    system_status |-> data.system_status,
                    acc |-> Accs],
     details   |-> <<"details", d>>,
     limits    |-> <<"limits", d>>,
     settings  |-> <<"settings", d>>,
     features  |-> [thingName |-> d, pellet_sensor_connected |-> 1]]

EmptyMap == [x \in {} |-> None]
MapPut(m, k, v) == [x \in DOMAIN m \cup {k} |-> IF x = k THEN v ELSE m[x]]
MapDel(m, k) == [x \in DOMAIN m \ {k} |-> m[x]]
MapDelNone(m, ks) == m
RECURSIVE MapDelAll(_, _)
MapDelAll(m, ks) ==
    IF ks = <<>> THEN m ELSE MapDelAll(MapDel(m, Head(ks)), Tail(ks))

\* history marker written by every step; steps that return nothing of
\* interest write Quiet
\* (invoked: the callbacks the step called, in order)
Quiet == [op |-> "-", id |-> 0, out |-> "-", invoked |-> <<>>]
Did(o, d, r) == [op |-> o, id |-> d, out |-> r, invoked |-> <<>>]
Called(o, d, r, fns) == [op |-> o, id |-> d, out |-> r, invoked |-> fns]
\* (arg: the payload mqtt_onmessage was called with, and the status that
\* was stored for the grill before the call)
\* (fetch: what became of the url request of the tick that ended: "ok",
\* "failed", or "none" when the tick made none)
Ticked(o, r, fetch) ==
    [op |-> o, id |-> 0, out |-> r, invoked |-> <<>>, fetch |-> fetch]
Received(d, r, payload, before) ==
    [op |-> "on_message", id |-> d, out |-> r, invoked |-> <<>>,
     arg |-> [payload |-> payload, before |-> before]]

\* ------------------------------------------------------------- accessors

GetStateForDeviceDefault(s, d) ==
    IF d \in DOMAIN s THEN Some(s[d].status)
    ELSE Some([connected |-> FALSE, system_status |-> 0, acc |-> <<>>])

\* get_state_for_device
GetStateForDevice(s, d) ==
    IF d \in DOMAIN s THEN Some(s[d].status) ELSE Absent

\* get_details_for_device
GetDetailsForDevice(s, d) ==
    IF d \in DOMAIN s THEN Some(s[d].details) ELSE Absent

\* get_limits_for_device
GetLimitsForDevice(s, d) ==
    IF d \in DOMAIN s THEN Some(s[d].limits) ELSE Absent

\* get_settings_for_device
GetSettingsForDevice(s, d) ==
    IF d \in DOMAIN s THEN Some(s[d].settings) ELSE Absent

\* get_features_for_device
GetFeaturesForDevice(s, d) ==
    IF d \in DOMAIN s THEN Some(s[d].features) ELSE Absent

\* get_details_for_accessory: the walrus test is false for None
GetDetailsForAccessory(s, d, a) ==
    LET state == GetStateForDevice(s, d) IN
    IF state = Absent THEN Absent
    ELSE LET st == CHOOSE x \in state : TRUE
             hits == {i \in 1..Len(st.acc) : st.acc[i].uuid = a}
         IN IF hits = {} THEN Absent
            ELSE Some(st.acc[CHOOSE i \in hits : \A j \in hits : i <= j])

\* ------------------------------------------------- entity availability

\* the value behind an attribute that is not None
The(opt) == CHOOSE x \in opt : TRUE

\* TraegerClimateEntity.available
ClimateAvailable(state) ==
    IF state = Absent THEN FALSE ELSE The(state).connected

\* AccessoryTraegerClimateEntity.available
ProbeClimateAvailable(state, acc) ==
    IF state = Absent \/ The(state).connected = FALSE \/ acc = Absent
    THEN FALSE
    ELSE The(acc).con = 1

\* sensor.TraegerBaseSensor.available
SensorAvailable(state) == state # Absent /\ The(state).connected

\* PelletSensor.available
PelletAvailable(features) ==
    features # Absent /\ The(features).pellet_sensor_connected = 1

\* ProbeState.available
ProbeSensorAvailable(state, acc) ==
    IF state = Absent \/ ~The(state).connected \/ acc = Absent
    THEN FALSE
    ELSE The(acc).con # 0

\* binary_sensor.TraegerBaseSensor.available
BinarySensorAvailable(state) == state # Absent /\ The(state).connected

\* TraegerNumberEntity.available
NumberAvailable(state) == state # Absent /\ The(state).connected

\* TraegerSwitchEntity.available
SwitchAvailable(state) ==
    /\ state # Absent
    /\ The(state).connected
    /\ IGNITING <= The(state).system_status
    /\ The(state).system_status <= CUSTOM_COOK

\* TraegerConnectEntity and CookCycNumberEntity define no available
\* property: they answer with the one they inherit from Home Assistant's
\* Entity, which is True
ConnectSwitchAvailable == TRUE
CookCycleAvailable == TRUE

\* what each kind of entity answers for available after
\* grill_refresh_state read state and features (and the probe entities
\* their accessory)
Available(state, features, acc) ==
    [climate        |-> ClimateAvailable(state),
     probe_climate  |-> ProbeClimateAvailable(state, acc),
     sensor         |-> SensorAvailable(state),
     pellet         |-> PelletAvailable(features),
     probe_sensor   |-> ProbeSensorAvailable(state, acc),
     binary_sensor  |-> BinarySensorAvailable(state),
     number         |-> NumberAvailable(state),
     switch         |-> SwitchAvailable(state),
     connect_switch |-> ConnectSwitchAvailable,
     cook_cycle     |-> CookCycleAvailable]

\* __token_remaining / __mqtt_url_remaining (expiry minus time.time())
TokenRemaining == token_expires
MqttUrlRemaining == mqtt_url_expires

\* ------------------------------------------------------------ credentials

\* ExpiresIn / expirationSeconds values the cloud hands out
TTLs == {MaxTTL}
Responses == {[ok |-> FALSE, ttl |-> 0]} \cup {[ok |-> TRUE, ttl |-> t] : t \in TTLs}

\* an expiry relative to now, kept inside the clock's range
Clamp(x) == Max(0, Min(x, MaxTTL))

\* response["AuthenticationResult"]["IdToken"] and json["signedUrl"]
IdToken == "IdToken"
SignedUrl == "signedUrl"

NeedsRefreshAtWindow == TokenRemaining <= RefreshWindow

\* __refresh_token: if self.__token_remaining() < 60
NeedsRefresh == TokenRemaining < RefreshWindow

AuthorizationNone(tok) == None

\* headers={"Authorization": self.token} of the command POST
Authorization(tok) == tok

Idle == [pc |-> "idle", rt |-> 0]
Await(p) == [pc |-> p, rt |-> 0]
IdleCall == [pc |-> "idle", rt |-> 0, thing |-> 0, command |-> "-",
             stale |-> FALSE, requested |-> FALSE, auth |-> None]
Calls == 1..MaxCalls

\* HeatingState.__init__: the entity is created before any update arrived
\* (grill_state None), previous_target_temp None, previous_state "idle";
\* a temperature that may be None is Absent or Some(t)
\* (history: reported and reported_target, the value the last evaluation
\* returned and the target it saw; reads, the evaluations since the last
\* update of grill_state, counted up to 2)
HeatingInit ==
    [grill_state |-> Absent, previous_target_temp |-> Absent,
     previous_state |-> "idle",
     reported |-> "none", reported_target |-> Absent, reads |-> 0]

\* ProbeState.__init__: grill_state and grill_accessory as the store gives
\* them before any message (None), previous_target_temp None, probe_alarm
\* False (history: reported, the value the last evaluation returned;
\* latched, whether an evaluation saw alarm_fired and no evaluation or
\* update since has met one of the conditions that release the alarm)
ProbeInit ==
    [grill_state |-> Absent, grill_accessory |-> Absent,
     previous_target_temp |-> Absent, probe_alarm |-> FALSE,
     reported |-> "none", latched |-> FALSE]

Init ==
    /\ grills = <<>>
    /\ grill_status = EmptyMap
    /\ grill_callbacks = EmptyMap
    /\ grills_active = FALSE
    /\ mqtt_thread_running = FALSE
    /\ mqtt_thread_refreshing = FALSE
    /\ mqtt_client_inloop = FALSE
    /\ mqtt_client = None
    /\ subacks = 0
    /\ mqtt_url = None
    /\ mqtt_url_expires = 0
    /\ token = None
    /\ token_expires = 0
    /\ task = None
    /\ timers = 0
    /\ threads = [t \in Threads |-> [pc |-> "none", obj |-> "cur"]]
    /\ loop_queue = <<>>
    /\ start_co = Idle
    /\ main_co = Idle
    /\ kill_waiting = 0
    /\ calls = [c \in Calls |-> IdleCall]
    /\ heating = HeatingInit
    /\ probe = ProbeInit
    /\ registered = [d \in Ids |-> <<>>]
    /\ last = Quiet

credVars == <<token, token_expires>>
storeVars == <<grill_status, grills_active>>
cbVars == <<grill_callbacks, registered>>
mqttVars == <<mqtt_thread_running, mqtt_thread_refreshing, mqtt_client_inloop,
              mqtt_client, subacks, mqtt_url, mqtt_url_expires, threads>>
timerVars == <<task, timers>>
sensorVars == <<heating, probe>>

\* ------------------------------------------------------ command dispatcher

\* __send_command up to its first await: the credential check of
\* __refresh_token, then either the cognito request or the command POST
SendCommand(c, d, cmd) ==
    /\ calls[c].pc = "idle"
    /\ calls' = [calls EXCEPT ![c] =
                    [pc |-> IF NeedsRefresh THEN "cognito" ELSE "post",
                     rt |-> 0, thing |-> d, command |-> cmd,
                     stale |-> NeedsRefresh, requested |-> NeedsRefresh,
                     auth |-> IF NeedsRefresh THEN None
                                              ELSE Authorization(token)]]

\* str(k) of one decimal digit
Digit(k) ==
    CASE k = 0 -> "0" [] k = 1 -> "1" [] k = 2 -> "2" [] k = 3 -> "3"
      [] k = 4 -> "4" [] k = 5 -> "5" [] k = 6 -> "6" [] k = 7 -> "7"
      [] k = 8 -> "8" [] k = 9 -> "9"

\* str(n) / the "{n}" of an f-string, for n >= 0
RECURSIVE Decimal(_)
Decimal(n) ==
    IF n < 10 THEN Digit(n) ELSE Decimal(n \div 10) \o Digit(n % 10)

ZeroPadNone(str, width) == str

\* the format spec 0<width>d applied to the digits of a number >= 0: zeros
\* in front up to the width, nothing cut off
RECURSIVE ZeroPad(_, _)
ZeroPad(str, width) ==
    IF Len(str) >= width THEN str ELSE ZeroPad("0" \o str, width)

\* the command wrappers and __update_state, and the arguments entities pass
Wrappers == {"set_temperature", "set_probe_temperature", "set_switch",
             "shutdown_grill", "set_timer_sec", "reset_timer"}
Inputs == {0, 7, 225, 300, 86400}

\* the command string each wrapper hands to __send_command
Encode(w, x) ==
    CASE w = "set_temperature" -> "11," \o Decimal(x)
      [] w = "set_probe_temperature" -> "14," \o Decimal(x)
      [] w = "set_switch" -> Decimal(x)
      [] w = "shutdown_grill" -> "17"
      [] w = "set_timer_sec" -> "12," \o ZeroPad(Decimal(x), 5)
      [] w = "reset_timer" -> "13"
      [] w = "update_state" -> "90"

\* an entity calls the command wrapper w with argument x
Wrapper(c, d, w, x) ==
    /\ SendCommand(c, d, Encode(w, x))
    /\ last' = Did("call", d, [wrapper |-> w, arg |-> x])
    /\ UNCHANGED <<sensorVars, grills, storeVars, cbVars, mqttVars, timerVars, loop_queue,
                   start_co, main_co, kill_waiting, token, token_expires>>

\* an entity calls the command wrapper w while no other command is in flight
WrapperAlone(c, d, w, x) ==
    /\ \A e \in Calls : calls[e].pc = "idle"
    /\ Wrapper(c, d, w, x)

\* an entity calls shutdown_grill
EntityCommand(c, d) == Wrapper(c, d, "shutdown_grill", 0)

\* ------------------------------------------------- HeatingState sensor

\* the part of Status that HeatingState reads: set (target), grill (current
\* temperature) and system_status, for a grill that reports Fahrenheit
Targets == {225, 300}
Temperatures == {100, 200, 225, 250}
HeatingModes == {3, 5, CUSTOM_COOK, 8}
HeatingStates ==
    {Absent} \cup {Some([set |-> t, grill |-> g, system_status |-> m]) :
                      t \in Targets, g \in Temperatures, m \in HeatingModes}

\* self.preheat_modes and self.cook_modes
PreheatModes == {5, IGNITING}
CookModes == {CUSTOM_COOK, 6}

\* the branch of native_value for a cook mode, before the target_changed
\* override: the state by self.previous_state, "idle" in the catch-all branch
CookState(previous_state, current_temp, target_temp) ==
    CASE previous_state \in {"heating", "preheating"} ->
           IF current_temp >= target_temp THEN "at_temp" ELSE "heating"
      [] previous_state = "cooling" ->
           IF current_temp <= target_temp THEN "at_temp" ELSE "cooling"
      [] previous_state = "at_temp" ->
           IF current_temp > target_temp + TempSwing THEN "over_temp"
           ELSE IF current_temp < target_temp - TempSwing THEN "under_temp"
           ELSE "at_temp"
      [] previous_state = "under_temp" ->
           IF current_temp > target_temp - TempSwing THEN "at_temp"
                                                     ELSE "under_temp"
      [] previous_state = "over_temp" ->
           IF current_temp < target_temp + TempSwing THEN "at_temp"
                                                     ELSE "over_temp"
      [] OTHER -> "idle"

\* HeatingState.native_value for a grill_state that is not None
HeatingValue(st, previous_state, previous_target_temp) ==
    LET target_changed ==
            \/ Some(st.set) # previous_target_temp
            \/ previous_state \notin {"heating", "preheating", "cooling",
                                      "at_temp", "under_temp", "over_temp"}
    IN  IF st.system_status \in PreheatModes
        THEN IF st.grill < GRILL_MIN_TEMP_F THEN "preheating" ELSE "heating"
        ELSE IF st.system_status \in CookModes
        THEN IF target_changed
             THEN IF st.grill <= st.set THEN "heating" ELSE "cooling"
             ELSE CookState(previous_state, st.grill, st.set)
        ELSE IF st.system_status = 8 THEN "cool_down"
        ELSE "idle"

\* grill_update_internal of the sensor: grill_refresh_state stores what
\* get_state_for_device returns (None when the store has no entry)
HeatingUpdate(state) ==
    /\ heating' = [heating EXCEPT !.grill_state = state, !.reads = 0]
    /\ last' = Quiet
    /\ UNCHANGED <<probe, grills, storeVars, cbVars, mqttVars, timerVars,
                   loop_queue, start_co, main_co, kill_waiting, calls,
                   credVars>>

\* Home Assistant reads HeatingState.native_value: with grill_state None it
\* returns "idle" and stores nothing; otherwise it stores the target and
\* the state it returns
HeatingNativeValue ==
    LET state == IF heating.grill_state = Absent THEN "idle"
                 ELSE HeatingValue(The(heating.grill_state),
                                   heating.previous_state,
                                   heating.previous_target_temp)
    IN  /\ heating' =
              [heating EXCEPT
                 !.previous_target_temp =
                     IF heating.grill_state = Absent THEN @
                     ELSE Some(The(heating.grill_state).set),
                 !.previous_state =
                     IF heating.grill_state = Absent THEN @ ELSE state,
                 !.reported = state,
                 !.reported_target =
                     IF heating.grill_state = Absent THEN Absent
                     ELSE Some(The(heating.grill_state).set),
                 !.reads = Min(@ + 1, 2)]
        /\ last' = Did("native_value", 0, state)
        /\ UNCHANGED <<probe, grills, storeVars, cbVars, mqttVars, timerVars,
                       loop_queue, start_co, main_co, kill_waiting, calls,
                       credVars>>

\* --------------------------------------------------- ProbeState sensor

\* what ProbeState reads of the store: the Status (connected and
\* system_status) and the accessory with the sensor's uuid (con and its
\* Probe), for a grill that reports Fahrenheit; get_details_for_accessory
\* returns None when the grill has no state or no such accessory
ProbeTemps == {100, 160, FellOutTemp}
ProbeTargets == {0, 165, 180}
ProbeModes == {3, CUSTOM_COOK}
ActiveModes == {5, IGNITING, CUSTOM_COOK, 6}
Probes ==
    [get_temp : ProbeTemps, set_temp : ProbeTargets, alarm_fired : BOOLEAN]
Accessories == {Absent} \cup {Some([con |-> c, probe |-> pr]) :
                                 c \in BOOLEAN, pr \in Probes}
ProbeViews ==
    {[state |-> Absent, accessory |-> Absent]} \cup
    {[state |-> Some([connected |-> b, system_status |-> m]),
      accessory |-> a] : b \in BOOLEAN, m \in ProbeModes, a \in Accessories}

\* ProbeState.available as a value: the grill has a state and is connected,
\* the accessory exists and is connected
ProbeIsAvailable(state, accessory) ==
    /\ state # Absent
    /\ The(state).connected
    /\ accessory # Absent
    /\ The(accessory).con

\* the latch step of native_value: a Probe always has alarm_fired
ProbeLatch(probe_alarm, acc, target_changed, grill_mode) ==
    IF acc.alarm_fired THEN TRUE
    ELSE IF (target_changed /\ acc.set_temp # 0)
            \/ grill_mode \notin ActiveModes
         THEN FALSE
    ELSE probe_alarm

ProbeValueAlarmFirst(acc, probe_alarm, grill_mode) ==
    IF probe_alarm THEN "at_temp"
    ELSE IF acc.get_temp >= FellOutTemp THEN "fell_out"
    ELSE IF acc.set_temp # 0 /\ grill_mode \in ActiveModes
         THEN IF acc.get_temp + CloseTemp >= acc.set_temp THEN "close"
                                                          ELSE "set"
    ELSE "idle"

\* the state native_value returns, by the latch as just updated
ProbeValue(acc, probe_alarm, grill_mode) ==
    IF acc.get_temp >= FellOutTemp THEN "fell_out"
    ELSE IF probe_alarm THEN "at_temp"
    ELSE IF acc.set_temp # 0 /\ grill_mode \in ActiveModes
         THEN IF acc.get_temp + CloseTemp >= acc.set_temp THEN "close"
                                                          ELSE "set"
    ELSE "idle"

\* grill_accessory_update: grill_refresh_state, then the accessory is
\* looked up again (history: an update that makes the probe or the grill
\* unavailable releases the alarm)
ProbeUpdate(view) ==
    /\ probe' = [probe EXCEPT
                   !.grill_state = view.state,
                   !.grill_accessory = view.accessory,
                   !.latched = @ /\ ProbeIsAvailable(view.state,
                                                     view.accessory)]
    /\ last' = Quiet
    /\ UNCHANGED <<heating, grills, storeVars, cbVars, mqttVars, timerVars,
                   loop_queue, start_co, main_co, kill_waiting, calls,
                   credVars>>

\* Home Assistant reads ProbeState.available: an unavailable probe resets
\* probe_alarm
ProbeAvailable ==
    LET available == ProbeIsAvailable(probe.grill_state,
                                      probe.grill_accessory)
    IN  /\ probe' = [probe EXCEPT !.probe_alarm = @ /\ available]
        /\ last' = Did("available", 0, available)
        /\ UNCHANGED <<heating, grills, storeVars, cbVars, mqttVars,
                       timerVars, loop_queue, start_co, main_co,
                       kill_waiting, calls, credVars>>

\* Home Assistant reads ProbeState.native_value: "idle" without an
\* accessory; otherwise the latch is updated, the state computed, the else
\* branch resets the latch (it is already False there) and the target is
\* remembered (history: latched is set by alarm_fired of an available
\* probe, and released by a target that is not the one of the evaluation
\* before and not 0, or by a mode outside the active modes)
ProbeNativeValue ==
    IF probe.grill_accessory = Absent
    THEN /\ probe' = [probe EXCEPT !.reported = "idle"]
         /\ last' = Did("probe_value", 0, "idle")
         /\ UNCHANGED <<heating, grills, storeVars, cbVars, mqttVars,
                        timerVars, loop_queue, start_co, main_co,
                        kill_waiting, calls, credVars>>
    ELSE LET acc == The(probe.grill_accessory).probe
             grill_mode == The(probe.grill_state).system_status
             target_changed == Some(acc.set_temp) # probe.previous_target_temp
             alarm == ProbeLatch(probe.probe_alarm, acc, target_changed,
                                 grill_mode)
             state == ProbeValue(acc, alarm, grill_mode)
         IN  /\ probe' =
                   [probe EXCEPT
                      !.probe_alarm =
                          IF state \in {"fell_out", "at_temp", "close", "set"}
                          THEN alarm ELSE FALSE,
                      !.previous_target_temp = Some(acc.set_temp),
                      !.reported = state,
                      !.latched =
                          IF ~ProbeIsAvailable(probe.grill_state,
                                               probe.grill_accessory)
                          THEN FALSE
                          ELSE IF acc.alarm_fired THEN TRUE
                          ELSE IF \/ /\ Some(acc.set_temp)
                                           # probe.previous_target_temp
                                      /\ acc.set_temp # 0
                                  \/ grill_mode \notin ActiveModes
                               THEN FALSE
                          ELSE @]
             /\ last' = Did("probe_value", 0, state)
             /\ UNCHANGED <<heating, grills, storeVars, cbVars, mqttVars,
                            timerVars, loop_queue, start_co, main_co,
                            kill_waiting, calls, credVars>>

\* ------------------------------------------------ entity command handlers

\* the grill_state an entity holds when one of its handlers is called: None,
\* or the status of some update
EntityModes == Modes \cup {IGNITING}
EntityStates ==
    {Absent} \cup {Some([connected |-> b, system_status |-> m, acc |-> Accs]) :
                      b \in BOOLEAN, m \in EntityModes}

InCookOrCoolDown(status) ==
    IGNITING <= status.system_status /\ status.system_status <= 8

\* GrillMode.IGNITING <= state <= GrillMode.CUSTOM_COOK
InCook(status) ==
    IGNITING <= status.system_status /\ status.system_status <= CUSTOM_COOK

\* what a handler does: it awaits one wrapper of the client, returns without
\* a call, or raises NotImplementedError
Awaits(w, x) == [wrapper |-> w, arg |-> x]
Returns == [wrapper |-> "return", arg |-> 0]
NotSupported == [wrapper |-> "raise", arg |-> 0]

\* TraegerClimateEntity.async_set_temperature(temperature=x); a temperature
\* of 0 (or none) is falsy
AsyncSetTemperature(state, x) ==
    IF state = Absent THEN Returns
    ELSE IF InCook(The(state))
         THEN IF x # 0 THEN Awaits("set_temperature", x) ELSE Returns
         ELSE NotSupported

\* TraegerClimateEntity.async_set_hvac_mode(hvac_mode)
AsyncSetHvacMode(state, hvac_mode) ==
    IF state = Absent THEN Returns
    ELSE IF hvac_mode \in {"off", "cool"} /\ InCook(The(state))
         THEN Awaits("shutdown_grill", 0)
         ELSE NotSupported

\* TraegerSwitchEntity.async_turn_on / async_turn_off, cmd the on_cmd or
\* off_cmd of the entity (20, 21 super smoke, 18, 19 keep warm)
AsyncTurn(state, cmd) ==
    IF state # Absent /\ InCook(The(state))
    THEN Awaits("set_switch", cmd) ELSE Returns

\* TraegerNumberEntity.async_set_native_value(value), value in minutes
AsyncSetNativeValue(state, value) ==
    IF state = Absent THEN Returns
    ELSE IF InCook(The(state))
         THEN IF value >= 1 THEN Awaits("set_timer_sec", value * 60)
                            ELSE Awaits("reset_timer", 0)
         ELSE NotSupported

\* the handlers and the arguments they are called with
Handlers ==
    ({"set_temperature"} \X {0, 225})
      \cup ({"set_hvac_mode"} \X {"heat", "off", "cool"})
      \cup ({"turn_on"} \X {20, 18})
      \cup ({"turn_off"} \X {21, 19})
      \cup ({"set_native_value"} \X {0, 5})

Handle(h, state) ==
    CASE h[1] = "set_temperature" -> AsyncSetTemperature(state, h[2])
      [] h[1] = "set_hvac_mode" -> AsyncSetHvacMode(state, h[2])
      [] h[1] \in {"turn_on", "turn_off"} -> AsyncTurn(state, h[2])
      [] h[1] = "set_native_value" -> AsyncSetNativeValue(state, h[2])

\* Home Assistant calls the handler h of an entity of grill d that holds
\* grill_state = state; c is the __send_command the handler awaits, if any
EntityHandler(c, d, h, state) ==
    LET r == Handle(h, state) IN
    /\ \A e \in Calls : calls[e].pc = "idle"
    /\ IF r.wrapper \in Wrappers
       THEN SendCommand(c, d, Encode(r.wrapper, r.arg))
       ELSE UNCHANGED calls
    /\ last' = Did("handler", d, [handler |-> h, state |-> state, did |-> r])
    /\ UNCHANGED <<sensorVars, grills, storeVars, cbVars, mqttVars, timerVars, loop_queue,
                   start_co, main_co, kill_waiting, token, token_expires>>

\* __do_cognito returned inside __refresh_token of a command: a response
\* without AuthenticationResult ({} after an __api_wrapper error) raises
\* KeyError out of __send_command; otherwise the credential is replaced and
\* the POST is issued
CommandCognito(c, r) ==
    /\ calls[c].pc = "cognito"
    /\ r.ok => calls[c].rt > 0 - TIMEOUT
    /\ IF r.ok
       THEN /\ token_expires' = Clamp(r.ttl + calls[c].rt)
            /\ token' = IdToken
            /\ calls' = [calls EXCEPT ![c].pc = "post", ![c].rt = 0,
                                      ![c].auth = Authorization(IdToken)]
            /\ last' = Quiet
       ELSE /\ UNCHANGED <<token, token_expires>>
            /\ calls' = [calls EXCEPT ![c] = IdleCall]
            /\ last' = Did("command", calls[c].thing, "raised")
    /\ UNCHANGED <<sensorVars, grills, storeVars, cbVars, mqttVars, timerVars, loop_queue,
                   start_co, main_co, kill_waiting>>

\* a command's __refresh_token between its two assignments: token_expires
\* already holds the new expiry, token still holds what it held before
Halfway == \E c \in Calls : calls[c].pc = "assign"

\* __refresh_token of a command, statement by statement as another thread
\* sees it. First statement after __do_cognito returned:
\* self.token_expires = response["AuthenticationResult"]["ExpiresIn"] + request_time
\* (a response without AuthenticationResult raises KeyError here)
CommandCognitoExpiry(c, r) ==
    /\ calls[c].pc = "cognito"
    /\ r.ok => calls[c].rt > 0 - TIMEOUT
    /\ IF r.ok
       THEN /\ token_expires' = Clamp(r.ttl + calls[c].rt)
            /\ calls' = [calls EXCEPT ![c].pc = "assign", ![c].rt = 0]
            /\ last' = Quiet
       ELSE /\ UNCHANGED token_expires
            /\ calls' = [calls EXCEPT ![c] = IdleCall]
            /\ last' = Did("command", calls[c].thing, "raised")
    /\ UNCHANGED <<sensorVars, grills, storeVars, cbVars, mqttVars, timerVars, loop_queue,
                   start_co, main_co, kill_waiting, token>>

\* second statement: self.token = response["AuthenticationResult"]["IdToken"],
\* then the POST is issued
CommandCognitoToken(c) ==
    /\ calls[c].pc = "assign"
    /\ token' = IdToken
    /\ calls' = [calls EXCEPT ![c].pc = "post", ![c].rt = 0,
                              ![c].auth = Authorization(IdToken)]
    /\ last' = Quiet
    /\ UNCHANGED <<sensorVars, grills, storeVars, cbVars, mqttVars, timerVars, loop_queue,
                   start_co, main_co, kill_waiting, token_expires>>

\* the "post_raw" branch of __api_wrapper returned or failed: every error is
\* logged and swallowed, {} is returned either way
CommandPost(c, ok) ==
    /\ calls[c].pc = "post"
    /\ ok => calls[c].rt > 0 - TIMEOUT
    /\ calls' = [calls EXCEPT ![c] = IdleCall]
    /\ last' = Did("command", calls[c].thing,
                   IF ok THEN calls[c].command ELSE "dropped")
    /\ UNCHANGED <<sensorVars, grills, storeVars, cbVars, mqttVars, timerVars, loop_queue,
                   start_co, main_co, kill_waiting, credVars>>

\* -------------------------------------------------------------- start()

\* start() up to its first await: __update_grills -> get_user_data ->
\* __refresh_token
StartCall ==
    /\ start_co.pc = "idle"
    /\ start_co' = Await(IF NeedsRefresh THEN "cognito" ELSE "user")
    /\ last' = Quiet
    /\ UNCHANGED <<sensorVars, grills, storeVars, cbVars, mqttVars, timerVars, loop_queue,
                   main_co, kill_waiting, calls, token, token_expires>>

\* the cognito request of start() returned; KeyError on {} is not caught
StartCognito(r) ==
    /\ start_co.pc = "cognito"
    /\ r.ok => start_co.rt > 0 - TIMEOUT
    /\ IF r.ok
       THEN /\ token_expires' = Clamp(r.ttl + start_co.rt)
            /\ token' = IdToken
            /\ start_co' = Await("user")
            /\ last' = Quiet
       ELSE /\ UNCHANGED <<token, token_expires>>
            /\ start_co' = Idle
            /\ last' = Did("start", 0, "raised")
    /\ UNCHANGED <<sensorVars, grills, storeVars, cbVars, mqttVars, timerVars, loop_queue,
                   main_co, kill_waiting, calls>>

UpdateGrillsAlways(gs, ok) == Things

\* __update_grills: self.grills = user.things is reached only when
\* get_user_data and from_dict(User, data) raised nothing
UpdateGrills(gs, ok) == IF ok THEN Things ELSE gs

\* GET users/self returned: from_dict(User, data) raises on {} or on a
\* document that is no User; otherwise the device list is replaced and the
\* first tick is scheduled with call_later
StartUser(ok) ==
    /\ start_co.pc = "user"
    /\ ok => start_co.rt > 0 - TIMEOUT
    /\ start_co' = Idle
    /\ IF ok
       THEN /\ timers < MaxTimers
            /\ grills' = UpdateGrills(grills, ok)
            /\ grills_active' = TRUE
            /\ task' = "pending"
            /\ timers' = timers + 1
            /\ last' = Did("start", 0, "done")
       ELSE /\ grills' = UpdateGrills(grills, ok)
            /\ UNCHANGED <<grills_active, task, timers>>
            /\ last' = Did("start", 0, "raised")
    /\ UNCHANGED <<sensorVars, grill_status, cbVars, mqttVars, loop_queue,
                   main_co, kill_waiting, calls, credVars>>

\* --------------------------------------------------- maintenance tick

\* a slot holds no live thread (never started, returned, or ended by an
\* exception)
Free(t) == threads[t].pc = "none"
FreeSlot == CHOOSE t \in Threads : Free(t) /\ \A u \in Threads : Free(u) => t <= u

\* the worker threads inside loop_forever of the object self.mqtt_client
\* names lose it when the attribute is set to None
Orphaned(th) ==
    [t \in Threads |-> IF th[t].pc = "loop" THEN [th[t] EXCEPT !.obj = "old"]
                       ELSE th[t]]

\* __main: delay = max(self.__mqtt_url_remaining(), 30), the argument of
\* call_later
Delay(remaining) == Max(remaining, MinDelay)

\* __get_mqtt_client after __refresh_mqtt_url, and the end of __main.
\* urlparse / .decode() / ws_set_options / connect can raise
\* (connected = FALSE): .decode() exists on the bytes parts that a url of
\* None parses to and not on the parts of a str url, connect rejects an
\* empty host and raises OSError when the socket cannot be opened.  The
\* step is let succeed for any url that is held (connected = TRUE), so that
\* the streaming path behind it is examined.
\* An exception leaves __main before mqtt_thread_refreshing is cleared and
\* before the next tick is scheduled.
GetMqttClient(url, connected, fetch) ==
    /\ connected => url # None
    /\ main_co' = Idle
    /\ subacks' = IF connected THEN 0 ELSE subacks
    /\ IF connected
       THEN /\ mqtt_client' = "connecting"
            /\ IF mqtt_thread_running
               THEN UNCHANGED <<threads, mqtt_thread_running>>
               ELSE /\ \E t \in Threads : Free(t)
                    /\ threads' = [threads EXCEPT ![FreeSlot] =
                                      [pc |-> "begin", obj |-> "cur"]]
                    /\ mqtt_thread_running' = TRUE
            /\ mqtt_thread_refreshing' = FALSE
            /\ task' = "pending"
            /\ timers' = timers + 1
            /\ last' = Ticked("tick", Delay(mqtt_url_expires'), fetch)
       ELSE /\ mqtt_client' = IF mqtt_client = None THEN "new" ELSE mqtt_client
            /\ UNCHANGED <<threads, mqtt_thread_running, mqtt_thread_refreshing,
                           task, timers>>
            /\ last' = Ticked("tick_raised", "raised", fetch)

\* a call_later timer fires: __syncmain creates the __main task, which runs
\* to its first await (or to its end when the url is still good)
MainBegin(own) ==
    /\ main_co.pc = "idle"
    /\ IF own THEN task = "pending"
              ELSE timers > (IF task = "pending" THEN 1 ELSE 0)
    /\ IF MqttUrlRemaining < RefreshWindow
       THEN /\ mqtt_thread_refreshing' = TRUE
            /\ IF mqtt_thread_running /\ mqtt_client # None
               THEN /\ mqtt_client' = None
                    /\ threads' = Orphaned(threads)
               ELSE UNCHANGED <<mqtt_client, threads>>
            /\ main_co' = Await(IF NeedsRefresh THEN "cognito" ELSE "url")
            /\ task' = IF own THEN "spent" ELSE task
            /\ timers' = timers - 1
            /\ last' = Quiet
       ELSE /\ task' = "pending"
            /\ last' = Ticked("tick", Delay(MqttUrlRemaining), "none")
            /\ UNCHANGED <<mqtt_thread_refreshing, mqtt_client, threads,
                           main_co, timers>>
    /\ UNCHANGED <<sensorVars, grills, storeVars, cbVars, mqtt_thread_running,
                   mqtt_client_inloop, subacks, mqtt_url, mqtt_url_expires,
                   loop_queue, start_co, kill_waiting, calls, token,
                   token_expires>>

\* the cognito request of the tick returned
MainCognito(r, connected) ==
    /\ main_co.pc = "cognito"
    /\ r.ok => main_co.rt > 0 - TIMEOUT
    /\ IF ~r.ok
       THEN /\ main_co' = Idle
            /\ last' = Quiet
            /\ connected
            /\ UNCHANGED <<token, token_expires, mqttVars, timerVars>>
       ELSE /\ token_expires' = Clamp(r.ttl + main_co.rt)
            /\ token' = IdToken
            /\ IF MqttUrlRemaining < RefreshWindow
               THEN /\ main_co' = Await("url")
                    /\ last' = Quiet
                    /\ connected
                    /\ UNCHANGED <<mqttVars, timerVars>>
               ELSE /\ UNCHANGED <<mqtt_client_inloop, mqtt_url,
                                   mqtt_url_expires>>
                    /\ GetMqttClient(mqtt_url, connected, "none")
    /\ UNCHANGED <<sensorVars, grills, storeVars, cbVars, loop_queue, start_co,
                   kill_waiting, calls>>

\* POST mqtt-connections returned: a response without expirationSeconds or
\* signedUrl is logged and the cached url kept; then the client is set up
MainUrl(r, connected) ==
    /\ main_co.pc = "url"
    /\ r.ok => main_co.rt > 0 - TIMEOUT
    /\ mqtt_url_expires' = IF r.ok THEN Clamp(r.ttl + main_co.rt)
                                   ELSE mqtt_url_expires
    /\ mqtt_url' = IF r.ok THEN SignedUrl ELSE mqtt_url
    /\ GetMqttClient(mqtt_url', connected, IF r.ok THEN "ok" ELSE "failed")
    /\ UNCHANGED <<sensorVars, grills, storeVars, cbVars, mqtt_client_inloop, loop_queue,
                   start_co, kill_waiting, calls, credVars>>

\* ------------------------------------------- worker: mqtt_connect_func

\* thread start: if self.mqtt_client is not None
WorkerBegin(t) ==
    /\ threads[t].pc = "begin"
    /\ threads' = [threads EXCEPT ![t].pc =
                      IF mqtt_client # None THEN "check" ELSE "none"]
    /\ last' = Quiet
    /\ UNCHANGED <<sensorVars, grills, storeVars, cbVars, mqtt_thread_running,
                   mqtt_thread_refreshing, mqtt_client_inloop, mqtt_client,
                   subacks, mqtt_url, mqtt_url_expires, timerVars, loop_queue,
                   start_co, main_co, kill_waiting, calls, credVars>>

\* while self.mqtt_thread_running
WorkerCheck(t) ==
    /\ threads[t].pc = "check"
    /\ threads' = [threads EXCEPT ![t].pc =
                      IF mqtt_thread_running THEN "enter" ELSE "none"]
    /\ last' = Quiet
    /\ UNCHANGED <<sensorVars, grills, storeVars, cbVars, mqtt_thread_running,
                   mqtt_thread_refreshing, mqtt_client_inloop, mqtt_client,
                   subacks, mqtt_url, mqtt_url_expires, timerVars, loop_queue,
                   start_co, main_co, kill_waiting, calls, credVars>>

\* self.mqtt_client_inloop = True; self.mqtt_client.loop_forever()
\* (AttributeError ends the thread when the attribute is None by now)
WorkerEnter(t) ==
    /\ threads[t].pc = "enter"
    /\ mqtt_client_inloop' = TRUE
    /\ threads' = [threads EXCEPT ![t] =
                      [pc |-> IF mqtt_client # None THEN "loop" ELSE "none",
                       obj |-> "cur"]]
    /\ last' = Quiet
    /\ UNCHANGED <<sensorVars, grills, storeVars, cbVars, mqtt_thread_running,
                   mqtt_thread_refreshing, mqtt_client, subacks, mqtt_url,
                   mqtt_url_expires, timerVars, loop_queue, start_co, main_co,
                   kill_waiting, calls, credVars>>

\* the thread is inside loop_forever of the current client object
InLoop(t) == threads[t].pc = "loop" /\ threads[t].obj = "cur"

\* loop_forever returns once disconnect() was called on its client object;
\* self.mqtt_client_inloop = False
WorkerLeave(t) ==
    /\ threads[t].pc = "loop"
    /\ threads[t].obj = "old" \/ mqtt_client = "disconnecting"
    /\ mqtt_client_inloop' = FALSE
    /\ threads' = [threads EXCEPT ![t] = [pc |-> "wait", obj |-> "cur"]]
    /\ last' = Quiet
    /\ UNCHANGED <<sensorVars, grills, storeVars, cbVars, mqtt_thread_running,
                   mqtt_thread_refreshing, mqtt_client, subacks, mqtt_url,
                   mqtt_url_expires, timerVars, loop_queue, start_co, main_co,
                   kill_waiting, calls, credVars>>

\* the sleep(1) loop ends: not ((url_remaining < 60 or refreshing) and running)
WorkerWait(t) ==
    /\ threads[t].pc = "wait"
    /\ ~((MqttUrlRemaining < RefreshWindow \/ mqtt_thread_refreshing)
         /\ mqtt_thread_running)
    /\ threads' = [threads EXCEPT ![t].pc = "check"]
    /\ last' = Quiet
    /\ UNCHANGED <<sensorVars, grills, storeVars, cbVars, mqtt_thread_running,
                   mqtt_thread_refreshing, mqtt_client_inloop, mqtt_client,
                   subacks, mqtt_url, mqtt_url_expires, timerVars, loop_queue,
                   start_co, main_co, kill_waiting, calls, credVars>>

\* ------------------------------------------------------- paho callbacks

\* a coroutine handed to the loop with run_coroutine_threadsafe
\* (seen: history, the callbacks registered for the grill at that moment)
Item(o, d) == [op |-> o, id |-> d, seen |-> <<>>]
Fanout(d) == [op |-> "grill_callback", id |-> d, seen |-> registered[d]]

UpdateStatesNone(gs) == <<>>

\* mqtt_onsubscribe: run_coroutine_threadsafe(self.__update_state(grill_id),
\* self.loop) for each grill of the list, in its order
RECURSIVE UpdateStates(_)
UpdateStates(gs) ==
    IF gs = <<>> THEN <<>>
    ELSE <<Item("update_state", Head(gs))>> \o UpdateStates(Tail(gs))

\* f"prod/thing/update/{grill_id}"
UpdateTopic(d) == "prod/thing/update/" \o Decimal(d)

\* the topics mqtt_onconnect subscribes to, in the order of the device list
RECURSIVE Subscriptions(_)
Subscriptions(gs) ==
    IF gs = <<>> THEN <<>>
    ELSE <<UpdateTopic(Head(gs))>> \o Subscriptions(Tail(gs))

\* mqtt_onconnect (CONNACK): drop the stored entry of every grill in the
\* list and subscribe to its update topic
MqttOnConnect(t) ==
    /\ InLoop(t)
    /\ mqtt_client = "connecting"
    /\ mqtt_client' = "connected"
    /\ grill_status' = MapDelAll(grill_status, grills)
    /\ subacks' = Len(grills)
    /\ last' = Did("on_connect", 0,
                   [topics |-> Subscriptions(grills),
                    had |-> SeqToSet(grills) \cap DOMAIN grill_status])
    /\ UNCHANGED <<sensorVars, grills, grills_active, cbVars, mqtt_thread_running,
                   mqtt_thread_refreshing, mqtt_client_inloop, mqtt_url,
                   mqtt_url_expires, threads, timerVars, loop_queue, start_co,
                   main_co, kill_waiting, calls, credVars>>

\* mqtt_onsubscribe (one SUBACK): drop the stored entry of every grill and
\* schedule __update_state for each on the loop
MqttOnSubscribe(t) ==
    /\ InLoop(t)
    /\ mqtt_client = "connected"
    /\ subacks > 0
    /\ Len(loop_queue) + Len(grills) <= Max(MaxQueue, Len(grills))
    /\ subacks' = subacks - 1
    /\ grill_status' = MapDelAll(grill_status, grills)
    /\ loop_queue' = loop_queue \o UpdateStates(grills)
    /\ last' = Did("on_subscribe", 0, "scheduled")
    /\ UNCHANGED <<sensorVars, grills, grills_active, cbVars, mqtt_thread_running,
                   mqtt_thread_refreshing, mqtt_client_inloop, mqtt_client,
                   mqtt_url, mqtt_url_expires, threads, timerVars, start_co,
                   main_co, kill_waiting, calls, credVars>>

\* the transport dropped and paho reconnects inside loop_forever
ConnectionLost(t) ==
    /\ InLoop(t)
    /\ mqtt_client = "connected"
    /\ mqtt_client' = "connecting"
    /\ subacks' = 0
    /\ last' = Quiet
    /\ UNCHANGED <<sensorVars, grills, storeVars, cbVars, mqtt_thread_running,
                   mqtt_thread_refreshing, mqtt_client_inloop, mqtt_url,
                   mqtt_url_expires, threads, timerVars, loop_queue, start_co,
                   main_co, kill_waiting, calls, credVars>>

ConnectFailedIgnored(q) == q

\* asyncio.run_coroutine_threadsafe(self.kill(), self.loop)
ConnectFailed(q) == Append(q, Item("kill", 0))

\* mqtt_onconnectfail: a reconnect attempt of loop_forever failed; kill() is
\* scheduled on the loop.  paho then either retries (the thread stays in
\* loop_forever) or re-raises the socket error out of loop_forever, which
\* ends the thread with mqtt_client_inloop still set.
MqttOnConnectFail(t, reraised) ==
    /\ InLoop(t)
    /\ mqtt_client = "connecting"
    /\ Len(loop_queue) < MaxQueue
    /\ loop_queue' = ConnectFailed(loop_queue)
    /\ threads' = IF reraised THEN [threads EXCEPT ![t].pc = "none"]
                              ELSE threads
    /\ last' = Did("on_connect_fail", 0,
                   IF reraised THEN "reraised" ELSE "retrying")
    /\ UNCHANGED <<sensorVars, grills, storeVars, cbVars, mqtt_thread_running,
                   mqtt_thread_refreshing, mqtt_client_inloop, mqtt_client,
                   subacks, mqtt_url, mqtt_url_expires, timerVars, start_co,
                   main_co, kill_waiting, calls, credVars>>

\* the scan at the end of mqtt_onmessage: return at the first grill without
\* a stored state, set the flag for a connected grill with 4 <= mode <= 8
RECURSIVE ScanActive(_, _, _)
ScanActive(gs, st, active) ==
    IF gs = <<>> THEN active
    ELSE IF Head(gs) \notin DOMAIN st THEN active
    ELSE LET state == st[Head(gs)].status IN
         ScanActive(Tail(gs), st,
                    active \/ (state.connected /\ 4 <= state.system_status
                                               /\ state.system_status <= 8))

StoreAlways(st, d, payload) ==
    MapPut(st, d, FromDict(d, payload))

StoreMerged(st, d, payload) ==
    IF ~Parses(payload) THEN st
    ELSE IF d \notin DOMAIN st THEN MapPut(st, d, FromDict(d, payload))
    ELSE MapPut(st, d, [FromDict(d, payload) EXCEPT
                           !.status.system_status = st[d].status.system_status])

\* the store after mqtt_onmessage parsed the payload (json.loads, from_dict):
\* both raise before the assignment to self.grill_status[grill_id]
Store(st, d, payload) ==
    IF Parses(payload) THEN MapPut(st, d, FromDict(d, payload)) ELSE st

NotifyAlways(q, d, payload) == Append(q, Fanout(d))

\* run_coroutine_threadsafe(self.grill_callback(grill_id), self.loop) is
\* reached only after the parse
Notify(q, d, payload) ==
    IF Parses(payload) THEN Append(q, Fanout(d)) ELSE q

\* the exception of a payload that does not parse leaves mqtt_onmessage;
\* paho logs and re-raises it (suppress_exceptions is False), so it leaves
\* loop_forever and mqtt_connect_func too
AfterMessage(pc, payload) ==
    IF Parses(payload) THEN pc ELSE "none"

\* mqtt_onmessage for a message on prod/thing/update/<d>
MqttOnMessage(t, d, payload) ==
    /\ InLoop(t)
    /\ mqtt_client = "connected"
    /\ d \in SeqToSet(grills)
    /\ Len(loop_queue) < MaxQueue
    /\ grill_status' = Store(grill_status, d, payload)
    /\ loop_queue' = Notify(loop_queue, d, payload)
    /\ grills_active' =
          IF Parses(payload) /\ ~grills_active
          THEN ScanActive(grills, grill_status', FALSE)
          ELSE grills_active
    /\ threads' = [threads EXCEPT ![t].pc = AfterMessage(@, payload)]
    /\ last' = Received(d,
                        IF ~Parses(payload) THEN "raised"
                        ELSE IF payload.connected THEN "connected"
                        ELSE "disconnected",
                        payload, GetStateForDevice(grill_status, d))
    /\ UNCHANGED <<sensorVars, grills, cbVars, mqtt_thread_running, mqtt_thread_refreshing,
                   mqtt_client_inloop, mqtt_client, subacks, mqtt_url,
                   mqtt_url_expires, timerVars, start_co, main_co,
                   kill_waiting, calls, credVars>>

\* ---------------------------------------------------- callback registry

\* set_callback_for_grill: self.grill_callbacks.get(grill_id, []).append(cb)
\* appends to the list stored under grill_id, or to a new list that is
\* dropped when the id has no entry
SetCallback(cbs, d, fn) ==
    IF d \in DOMAIN cbs THEN [cbs EXCEPT ![d] = Append(@, fn)] ELSE cbs

\* an entity registers its update closure (each closure once)
SetCallbackForGrill(d, fn) ==
    /\ \A e \in Ids : fn \notin SeqToSet(registered[e])
    /\ grill_callbacks' = SetCallback(grill_callbacks, d, fn)
    /\ registered' = [registered EXCEPT ![d] = Append(@, fn)]
    /\ last' = Quiet
    /\ UNCHANGED <<sensorVars, grills, storeVars, mqttVars, timerVars, loop_queue,
                   start_co, main_co, kill_waiting, calls, credVars>>

\* grill_callback: the callbacks it calls, every one stored for grill_id
GrillCallback(cbs, d) ==
    IF d \in DOMAIN cbs THEN cbs[d] ELSE <<>>

\* for callback in self.grill_callbacks[grill_id]: callback()
\* nothing catches what a callback raises (bad: the callbacks that raise), so
\* the loop ends with the first of them: fns up to and including it ran
RECURSIVE UntilRaise(_, _)
UntilRaise(fns, bad) ==
    IF fns = <<>> THEN <<>>
    ELSE IF Head(fns) \in bad THEN <<Head(fns)>>
    ELSE <<Head(fns)>> \o UntilRaise(Tail(fns), bad)

\* the lists of callbacks a registry can hold under one id
CallbackLists == UNION {[1..n -> Fns] : n \in 0..MaxCallbacks}
\* self.grill_callbacks as a dictionary: an entry for every id of some set
Registries == UNION {[ds -> CallbackLists] : ds \in SUBSET Ids}

\* grill_callback(d) on the registry cbs, the callbacks of bad raising
GrillCallbackOn(cbs, d, bad) ==
    /\ last' = Called("fan_out", d,
                      [fns |-> GrillCallback(cbs, d), bad |-> bad],
                      UntilRaise(GrillCallback(cbs, d), bad))
    /\ UNCHANGED <<sensorVars, grills, storeVars, cbVars, mqttVars, timerVars, loop_queue,
                   start_co, main_co, kill_waiting, calls, credVars>>

\* ----------------------------------------------------------------- kill()

\* the loop that ends kill(): for each grill of the list, clear
\* status.connected of its stored entry and run its callbacks; indexing
\* self.grill_status with an id that has no entry raises KeyError
RECURSIVE MarkDisconnected(_, _, _)
MarkDisconnected(gs, st, called) ==
    IF gs = <<>> THEN [status |-> st, invoked |-> called, raised |-> FALSE]
    ELSE IF Head(gs) \notin DOMAIN st
         THEN [status |-> st, invoked |-> called, raised |-> TRUE]
         ELSE MarkDisconnected(Tail(gs),
                  [st EXCEPT ![Head(gs)].status.connected = FALSE],
                  called \o GrillCallback(grill_callbacks, Head(gs)))

\* kill() after the wait for the worker: expire the url, mark the grills
KillFinish ==
    LET r == MarkDisconnected(grills, grill_status, <<>>) IN
    /\ mqtt_url_expires' = 0
    /\ grill_status' = r.status
    /\ last' = Called("kill", 0, IF r.raised THEN "raised" ELSE "done",
                      r.invoked)

KillStoppedCancels(tk) == None

\* the else branch of kill(): "Task Already Dead", self.task is not touched
KillStopped(tk) == tk

\* kill() up to its first await (the whole of it when the worker is not
\* inside loop_forever or the client never ran)
Kill ==
    IF mqtt_thread_running
    THEN /\ task' = None
         /\ timers' = IF task = "pending" THEN timers - 1 ELSE timers
         /\ mqtt_thread_running' = FALSE
         /\ mqtt_client' = IF mqtt_client # None THEN "disconnecting"
                                                  ELSE mqtt_client
         /\ IF mqtt_client # None /\ mqtt_client_inloop
            THEN /\ kill_waiting < MaxKills
                 /\ kill_waiting' = kill_waiting + 1
                 /\ last' = Quiet
                 /\ UNCHANGED <<mqtt_url_expires, grill_status>>
            ELSE /\ KillFinish
                 /\ UNCHANGED kill_waiting
    ELSE /\ task' = KillStopped(task)
         /\ timers' = IF task' = None /\ task = "pending" THEN timers - 1
                                                          ELSE timers
         /\ last' = Did("kill", 0, "already_dead")
         /\ UNCHANGED <<mqtt_thread_running, mqtt_client, kill_waiting,
                        mqtt_url_expires, grill_status>>

\* kill() awaited by the shutdown listener, the unload of the entry or the
\* connect switch
KillCall ==
    /\ Kill
    /\ UNCHANGED <<sensorVars, grills, grills_active, grill_callbacks, registered,
                   mqtt_thread_refreshing, mqtt_client_inloop, subacks,
                   mqtt_url, threads, loop_queue, start_co, main_co, calls,
                   credVars>>

\* a kill() suspended in "while self.mqtt_client_inloop: await sleep(0.25)"
\* finds the flag cleared
KillResume ==
    /\ kill_waiting > 0
    /\ ~mqtt_client_inloop
    /\ kill_waiting' = kill_waiting - 1
    /\ KillFinish
    /\ UNCHANGED <<sensorVars, grills, grills_active, grill_callbacks, registered,
                   mqtt_thread_running, mqtt_thread_refreshing,
                   mqtt_client_inloop, mqtt_client, subacks, mqtt_url, threads,
                   timerVars, loop_queue, start_co, main_co, calls, credVars>>

\* --------------------------------- coroutines handed over by the worker

FreeCall == CHOOSE c \in Calls :
               calls[c].pc = "idle" /\ \A e \in Calls : calls[e].pc = "idle" => c <= e

\* the loop runs the next coroutine scheduled with run_coroutine_threadsafe
RunQueued ==
    /\ loop_queue # <<>>
    /\ loop_queue' = Tail(loop_queue)
    /\ LET it == Head(loop_queue) IN
       CASE it.op = "grill_callback" ->
              /\ last' = Called("grill_callback", it.id, it.seen,
                                GrillCallback(grill_callbacks, it.id))
              /\ UNCHANGED <<sensorVars, grills, storeVars, grill_callbacks, registered,
                             mqttVars, timerVars, start_co, main_co,
                             kill_waiting, calls, credVars>>
         [] it.op = "update_state" ->
              /\ \E c \in Calls : calls[c].pc = "idle"
              /\ SendCommand(FreeCall, it.id, Encode("update_state", 0))
              /\ last' = Quiet
              /\ UNCHANGED <<sensorVars, grills, storeVars, cbVars, mqttVars, timerVars,
                             start_co, main_co, kill_waiting, token,
                             token_expires>>
         [] it.op = "kill" ->
              /\ Kill
              /\ UNCHANGED <<sensorVars, grills, grills_active, grill_callbacks,
                             registered, mqtt_thread_refreshing,
                             mqtt_client_inloop, subacks, mqtt_url, threads,
                             start_co, main_co, calls, credVars>>

\* ------------------------------------------------------- entity reads

\* grill_refresh_state and the probe entities read the store
ReadAccessors(d, a) ==
    /\ last' = Did("read", d,
                   [state    |-> GetStateForDevice(grill_status, d),
                    details  |-> GetDetailsForDevice(grill_status, d),
                    limits   |-> GetLimitsForDevice(grill_status, d),
                    settings |-> GetSettingsForDevice(grill_status, d),
                    features |-> GetFeaturesForDevice(grill_status, d),
                    acc      |-> GetDetailsForAccessory(grill_status, d, a),
                    available |->
                        Available(GetStateForDevice(grill_status, d),
                                  GetFeaturesForDevice(grill_status, d),
                                  GetDetailsForAccessory(grill_status, d, a))])
    /\ UNCHANGED <<sensorVars, grills, storeVars, cbVars, mqttVars, timerVars, loop_queue,
                   start_co, main_co, kill_waiting, calls, credVars>>

\* ------------------------------------------------------------------ time

Elapse(co) ==
    IF co.pc = "idle" THEN co ELSE [co EXCEPT !.rt = @ - TimeStep]

\* TimeStep seconds pass; an HTTP call in flight for TIMEOUT seconds has to
\* time out first
Advance ==
    /\ start_co.pc # "idle" => start_co.rt > 0 - TIMEOUT
    /\ main_co.pc # "idle" => main_co.rt > 0 - TIMEOUT
    /\ \A c \in Calls : calls[c].pc # "idle" => calls[c].rt > 0 - TIMEOUT
    /\ token_expires' = Max(token_expires - TimeStep, 0)
    /\ mqtt_url_expires' = Max(mqtt_url_expires - TimeStep, 0)
    /\ start_co' = Elapse(start_co)
    /\ main_co' = Elapse(main_co)
    /\ calls' = [c \in Calls |-> Elapse(calls[c])]
    /\ last' = Quiet
    /\ UNCHANGED <<sensorVars, grills, storeVars, cbVars, mqtt_thread_running,
                   mqtt_thread_refreshing, mqtt_client_inloop, mqtt_client,
                   subacks, mqtt_url, threads, timerVars, loop_queue,
                   kill_waiting, token>>

\* ------------------------------------------------------- specifications

OkResponses == {r \in Responses : r.ok}

\* The client from construction on: start(), the maintenance ticks, the
\* worker thread, connects and connect failures, kill() and the passing of
\* time, with every HTTP call free to fail.  The broker delivers no SUBACK
\* and no update here; SpecStream has them.
Next ==
    \/ StartCall
    \/ \E r \in Responses : StartCognito(r)
    \/ \E ok \in BOOLEAN : StartUser(ok)
    \/ \E own \in BOOLEAN : MainBegin(own)
    \/ \E r \in Responses, connected \in BOOLEAN : MainCognito(r, connected)
    \/ \E r \in Responses, connected \in BOOLEAN : MainUrl(r, connected)
    \/ \E t \in Threads : WorkerBegin(t)
    \/ \E t \in Threads : WorkerCheck(t)
    \/ \E t \in Threads : WorkerEnter(t)
    \/ \E t \in Threads : WorkerLeave(t)
    \/ \E t \in Threads : WorkerWait(t)
    \/ \E t \in Threads : MqttOnConnect(t)
    \/ \E t \in Threads : ConnectionLost(t)
    \/ \E t \in Threads, reraised \in BOOLEAN : MqttOnConnectFail(t, reraised)
    \/ KillCall
    \/ KillResume
    \/ RunQueued
    \/ Advance

Spec == Init /\ [][Next]_vars

\* One session of the streaming path: start() and the first tick succeed,
\* the worker connects, the broker acknowledges the subscriptions and
\* delivers updates (well-formed or not), entities read the store, the loop
\* runs what the worker hands over.
NextStream ==
    \/ grills = <<>> /\ task = None /\ StartCall
    \/ \E r \in OkResponses : StartCognito(r)
    \/ StartUser(TRUE)
    \/ MainBegin(TRUE)
    \/ \E r \in OkResponses : MainUrl(r, TRUE)
    \/ \E t \in Threads : WorkerBegin(t)
    \/ \E t \in Threads : WorkerCheck(t)
    \/ \E t \in Threads : WorkerEnter(t)
    \/ \E t \in Threads : MqttOnConnect(t)
    \/ \E t \in Threads : MqttOnSubscribe(t)
    \/ \E t \in Threads : ConnectionLost(t)
    \/ \E t \in Threads, d \in Ids, p \in Payloads : MqttOnMessage(t, d, p)
    \/ \E d \in Ids, a \in AccIds : ReadAccessors(d, a)
    \/ RunQueued
    \/ \E c \in Calls : CommandPost(c, TRUE)

SpecStream == Init /\ [][NextStream]_vars

\* The fan-out of one session: entities register their callbacks at any
\* time, the broker delivers updates and the loop runs the grill_callback
\* coroutines the worker schedules.
NextNotify ==
    \/ grills = <<>> /\ task = None /\ StartCall
    \/ \E r \in OkResponses : StartCognito(r)
    \/ StartUser(TRUE)
    \/ MainBegin(TRUE)
    \/ \E r \in OkResponses : MainUrl(r, TRUE)
    \/ \E t \in Threads : WorkerBegin(t)
    \/ \E t \in Threads : WorkerCheck(t)
    \/ \E t \in Threads : WorkerEnter(t)
    \/ \E t \in Threads : MqttOnConnect(t)
    \/ \E t \in Threads, d \in Ids, p \in Payloads : MqttOnMessage(t, d, p)
    \/ \E d \in Ids, fn \in Fns : SetCallbackForGrill(d, fn)
    \/ RunQueued

SpecNotify == Init /\ [][NextNotify]_vars

\* The command dispatcher and the credential manager: entities send
\* commands and start() is called while time passes and the identity
\* provider answers or fails.
NextCred ==
    \/ StartCall
    \/ \E r \in Responses : StartCognito(r)
    \/ \E ok \in BOOLEAN : StartUser(ok)
    \/ \E c \in Calls, d \in Ids : EntityCommand(c, d)
    \/ \E c \in Calls, r \in Responses : CommandCognito(c, r)
    \/ \E c \in Calls, ok \in BOOLEAN : CommandPost(c, ok)
    \/ Advance

SpecCred == Init /\ [][NextCred]_vars

\* The command wrappers alone: entities call every wrapper with every
\* argument of Inputs, one call at a time, and the identity provider and the
\* command endpoint answer.
NextEncode ==
    \/ \E c \in Calls, d \in Ids, w \in Wrappers, x \in Inputs :
          WrapperAlone(c, d, w, x)
    \/ \E c \in Calls, r \in OkResponses : CommandCognito(c, r)
    \/ \E c \in Calls : CommandPost(c, TRUE)

SpecEncode == Init /\ [][NextEncode]_vars

\* One start() and what follows a connect failure: every request is
\* answered, the worker connects, the transport drops, reconnects fail, the
\* loop runs the kill() handed over.  start() is not called again.
NextRebuild ==
    \/ grills = <<>> /\ task = None /\ StartCall
    \/ \E r \in OkResponses : StartCognito(r)
    \/ StartUser(TRUE)
    \/ MainBegin(TRUE)
    \/ \E r \in OkResponses : MainUrl(r, TRUE)
    \/ \E t \in Threads : WorkerBegin(t)
    \/ \E t \in Threads : WorkerCheck(t)
    \/ \E t \in Threads : WorkerEnter(t)
    \/ \E t \in Threads : WorkerLeave(t)
    \/ \E t \in Threads : WorkerWait(t)
    \/ \E t \in Threads : MqttOnConnect(t)
    \/ \E t \in Threads : ConnectionLost(t)
    \/ \E t \in Threads, reraised \in BOOLEAN : MqttOnConnectFail(t, reraised)
    \/ RunQueued
    \/ KillResume
    \/ Advance

\* The loop runs every callback and coroutine that is ready (a due timer, an
\* answered request, a coroutine handed over, a poll that can end), the
\* worker thread makes progress, and time passes.  Nothing is assumed about
\* the broker or the network.
FairRebuild ==
    /\ WF_vars(MainBegin(TRUE))
    /\ WF_vars(\E r \in OkResponses : MainUrl(r, TRUE))
    /\ WF_vars(\E r \in OkResponses : StartCognito(r))
    /\ WF_vars(StartUser(TRUE))
    /\ WF_vars(RunQueued)
    /\ WF_vars(KillResume)
    /\ WF_vars(Advance)
    /\ \A t \in Threads :
          /\ WF_vars(WorkerBegin(t))
          /\ WF_vars(WorkerCheck(t))
          /\ WF_vars(WorkerEnter(t))
          /\ WF_vars(WorkerLeave(t))
          /\ WF_vars(WorkerWait(t))

SpecRebuild == Init /\ [][NextRebuild]_vars /\ FairRebuild

\* One session and its teardown: start() and the first tick succeed, the
\* worker connects, updates are stored and their fan-out runs, and kill() is
\* called at any moment.
NextTeardown ==
    \/ grills = <<>> /\ task = None /\ StartCall
    \/ \E r \in OkResponses : StartCognito(r)
    \/ StartUser(TRUE)
    \/ MainBegin(TRUE)
    \/ \E r \in OkResponses : MainUrl(r, TRUE)
    \/ \E t \in Threads : WorkerBegin(t)
    \/ \E t \in Threads : WorkerCheck(t)
    \/ \E t \in Threads : WorkerEnter(t)
    \/ \E t \in Threads : WorkerLeave(t)
    \/ \E t \in Threads : WorkerWait(t)
    \/ \E t \in Threads : MqttOnConnect(t)
    \/ \E t \in Threads, d \in Ids, p \in WellFormed : MqttOnMessage(t, d, p)
    \/ RunQueued
    \/ KillCall
    \/ KillResume

SpecTeardown == Init /\ [][NextTeardown]_vars

\* A session whose token runs out while the worker thread is connected: the
\* event loop runs one coroutine at a time, so none of its steps falls between
\* the two assignments of a refresh; the worker thread is a thread of its
\* own and its callbacks run whenever the broker delivers.
LoopRace ==
    /\ ~Halfway
    /\ \/ grills = <<>> /\ task = None /\ StartCall
       \/ \E r \in OkResponses : StartCognito(r)
       \/ StartUser(TRUE)
       \/ MainBegin(TRUE)
       \/ \E r \in OkResponses : MainUrl(r, TRUE)
       \/ RunQueued
       \/ \E c \in Calls, d \in Ids : EntityCommand(c, d)
       \/ \E c \in Calls, r \in Responses : CommandCognitoExpiry(c, r)
       \/ \E c \in Calls, ok \in BOOLEAN : CommandPost(c, ok)
       \/ Advance

NextRace ==
    \/ LoopRace
    \/ \E c \in Calls : CommandCognitoToken(c)
    \/ \E t \in Threads : WorkerBegin(t)
    \/ \E t \in Threads : WorkerCheck(t)
    \/ \E t \in Threads : WorkerEnter(t)
    \/ \E t \in Threads : MqttOnConnect(t)
    \/ \E t \in Threads, d \in Ids, p \in WellFormed : MqttOnMessage(t, d, p)

SpecRace == Init /\ [][NextRace]_vars

\* grill_callback alone, on every registry and with every choice of the
\* callbacks that raise
NextFanOut ==
    \E cbs \in Registries, d \in Ids, bad \in SUBSET Fns :
        GrillCallbackOn(cbs, d, bad)

SpecFanOut == Init /\ [][NextFanOut]_vars

\* A session that is killed at any moment while time passes and the ticks
\* refresh the url: the cloud answers every request, the broker delivers
\* updates (well-formed or not), start() is called once.
NextKill ==
    \/ grills = <<>> /\ task = None /\ StartCall
    \/ \E r \in OkResponses : StartCognito(r)
    \/ StartUser(TRUE)
    \/ MainBegin(TRUE)
    \/ \E r \in OkResponses : MainCognito(r, TRUE)
    \/ \E r \in OkResponses : MainUrl(r, TRUE)
    \/ \E t \in Threads : WorkerBegin(t)
    \/ \E t \in Threads : WorkerCheck(t)
    \/ \E t \in Threads : WorkerEnter(t)
    \/ \E t \in Threads : WorkerLeave(t)
    \/ \E t \in Threads : WorkerWait(t)
    \/ \E t \in Threads : MqttOnConnect(t)
    \/ \E t \in Threads, d \in Ids, p \in Payloads : MqttOnMessage(t, d, p)
    \/ RunQueued
    \/ KillCall
    \/ KillResume
    \/ Advance

\* The loop runs every coroutine that is ready and every due timer, every
\* request is answered, and the worker thread is scheduled.
FairKill ==
    /\ WF_vars(MainBegin(TRUE))
    /\ WF_vars(\E r \in OkResponses : MainCognito(r, TRUE))
    /\ WF_vars(\E r \in OkResponses : MainUrl(r, TRUE))
    /\ WF_vars(\E r \in OkResponses : StartCognito(r))
    /\ WF_vars(StartUser(TRUE))
    /\ WF_vars(RunQueued)
    /\ WF_vars(KillResume)
    /\ \A t \in Threads :
          /\ WF_vars(WorkerBegin(t))
          /\ WF_vars(WorkerCheck(t))
          /\ WF_vars(WorkerEnter(t))
          /\ WF_vars(WorkerLeave(t))
          /\ WF_vars(WorkerWait(t))

SpecKill == Init /\ [][NextKill]_vars /\ FairKill

\* Sessions one after the other with no time passing in between: start(),
\* the tick (whose url request is answered or fails), the worker thread,
\* kill(), and start() again.  The url runs out only by the kill(); the
\* broker stays silent.
NextRestart ==
    \/ StartCall
    \/ \E r \in OkResponses : StartCognito(r)
    \/ StartUser(TRUE)
    \/ MainBegin(TRUE)
    \/ \E r \in Responses, connected \in BOOLEAN : MainUrl(r, connected)
    \/ \E t \in Threads : WorkerBegin(t)
    \/ \E t \in Threads : WorkerCheck(t)
    \/ \E t \in Threads : WorkerEnter(t)
    \/ \E t \in Threads : WorkerLeave(t)
    \/ \E t \in Threads : WorkerWait(t)
    \/ KillCall
    \/ KillResume

SpecRestart == Init /\ [][NextRestart]_vars

\* The entity handlers that send commands: Home Assistant calls them with
\* every argument and in every state an entity can hold, one at a time, and
\* the identity provider and the command endpoint answer.
NextEntity ==
    \/ \E c \in Calls, d \in Ids, h \in Handlers, state \in EntityStates :
          EntityHandler(c, d, h, state)
    \/ \E c \in Calls, r \in OkResponses : CommandCognito(c, r)
    \/ \E c \in Calls : CommandPost(c, TRUE)

SpecEntity == Init /\ [][NextEntity]_vars

\* The heating-state sensor alone: the entity's grill_state is replaced by
\* any state (or None) and Home Assistant reads native_value, in any order.
NextHeating ==
    \/ \E state \in HeatingStates : HeatingUpdate(state)
    \/ HeatingNativeValue

SpecHeating == Init /\ [][NextHeating]_vars

\* The probe-state sensor alone: the entity is refreshed with any view of
\* the store, and Home Assistant reads available and native_value, in any
\* order.
NextProbe ==
    \/ \E view \in ProbeViews : ProbeUpdate(view)
    \/ ProbeAvailable
    \/ ProbeNativeValue

SpecProbe == Init /\ [][NextProbe]_vars

\* ------------------------------------------------------------------ claims

\* how often x occurs in the sequence s
Count(x, s) == Cardinality({i \in 1..Len(s) : s[i] = x})

\* C1: when kill() has run on a running client, it returned without raising,
\* every grill of the list has a stored status with connected false, and
\* every callback registered for the grill was invoked by it.
C1_KillMarksEveryGrill ==
    (last.op = "kill" /\ last.out # "already_dead") =>
        /\ last.out = "done"
        /\ \A d \in SeqToSet(grills) :
              /\ d \in DOMAIN grill_status
              /\ ~grill_status[d].status.connected
              /\ SeqToSet(registered[d]) \subseteq SeqToSet(last.invoked)

\* C2: when kill() has returned, in whatever lifecycle state it was called,
\* no maintenance tick is pending any more.
C2_NoTickPendingAfterKill ==
    (last.op = "kill" /\ last.out \in {"done", "already_dead"}) =>
        /\ timers = 0
        /\ task # "pending"

\* C3: a kill() that finds the worker-running flag false returns without
\* raising and changes nothing of the client (store, timer handle, client
\* object, flags, threads, coroutines in flight; no callback is invoked);
\* and every call of kill() leaves the flag false by its first await or its
\* end, so a kill() called right after it is such a no-op.
C3_KillStoppedIsNoOp ==
    [][/\ (last'.op = "kill" /\ last'.out = "already_dead") =>
             /\ ~mqtt_thread_running
             /\ last'.invoked = <<>>
             /\ UNCHANGED <<sensorVars, grills, grill_status, grill_callbacks,
                            grills_active, mqtt_thread_running,
                            mqtt_thread_refreshing, mqtt_client_inloop,
                            mqtt_client, subacks, mqtt_url, mqtt_url_expires,
                            token, token_expires, task, timers, threads,
                            start_co, main_co, kill_waiting, calls,
                            registered>>
       /\ \/ last'.op = "kill" /\ kill_waiting' = kill_waiting
          \/ kill_waiting' > kill_waiting
          => ~mqtt_thread_running']_vars

\* C3 witness: a kill() has just run on a stopped client whose first tick
\* was pending, and the timer is still there
C3_KilledWhileStopped ==
    /\ last.op = "kill"
    /\ last.out = "already_dead"
    /\ task = "pending"
    /\ timers > 0

\* C4: the fan-out of one well-formed update for a grill invokes each
\* callback that was registered for the grill when the update arrived
\* exactly once, and no callback that was registered for another grill.
C4_EachCallbackOnce ==
    last.op = "grill_callback" =>
        /\ \A fn \in SeqToSet(last.out) : Count(fn, last.invoked) = 1
        /\ \A fn \in SeqToSet(last.invoked) :
              fn \in SeqToSet(registered[last.id])

\* C5: the list the registry stores for a grill is the sequence of the
\* callbacks registered for it so far, in order: each registration appended
\* one, and nothing removed any.
C5_RegistryAppends ==
    \A d \in Ids : GrillCallback(grill_callbacks, d) = registered[d]

\* C6 (as stated): after a well-formed update for a grill was processed,
\* get_state_for_device of the grill is present and its connected flag is
\* true.
C6_ConnectedAfterUpdate ==
    (last.op = "on_message" /\ last.out # "raised") =>
        /\ GetStateForDevice(grill_status, last.id) # Absent
        /\ \A st \in GetStateForDevice(grill_status, last.id) : st.connected

\* C6 (amended): after a well-formed update for a grill was processed,
\* get_state_for_device of the grill is present and its connected flag is
\* the one the update reported, true or false.
C6_ConnectedAsReported ==
    (last.op = "on_message" /\ last.out # "raised") =>
        /\ GetStateForDevice(grill_status, last.id) # Absent
        /\ \A st \in GetStateForDevice(grill_status, last.id) :
              st.connected <=> last.out = "connected"

\* C6 witness: an update that reports the grill disconnected was processed
\* and the state read back is present
C6_StoredDisconnected ==
    /\ last.op = "on_message"
    /\ last.out = "disconnected"
    /\ GetStateForDevice(grill_status, last.id) # Absent

\* C7: for a grill without a stored state every accessor returns None
\* (returning is not raising), and no accessor call, for any grill, changes
\* the store.
C7_AbsentReadsNone ==
    [][last'.op = "read" =>
          /\ grill_status' = grill_status
          /\ last'.id \notin DOMAIN grill_status =>
                /\ last'.out.state = Absent
                /\ last'.out.details = Absent
                /\ last'.out.limits = Absent
                /\ last'.out.settings = Absent
                /\ last'.out.features = Absent
                /\ last'.out.acc = Absent]_vars

\* C7 witness: the accessors were called for a grill of the list whose entry
\* the connect acknowledgement had dropped
C7_ReadWithoutState ==
    /\ last.op = "read"
    /\ last.id \in SeqToSet(grills)
    /\ last.id \notin DOMAIN grill_status
    /\ mqtt_client = "connected"

\* C8: an update whose payload does not parse leaves the store as it was
\* and hands no coroutine to the loop.
C8_MalformedChangesNothing ==
    [][(last'.op = "on_message" /\ last'.out = "raised") =>
          /\ grill_status' = grill_status
          /\ loop_queue' = loop_queue]_vars

\* C8 witness: a payload that does not parse arrived for a grill whose
\* state was stored, and the state is still there
C8_MalformedAfterStored ==
    /\ last.op = "on_message"
    /\ last.out = "raised"
    /\ last.id \in DOMAIN grill_status

\* C9: the handler does not let the error of a malformed payload out, and
\* after any message the worker is still inside its receive loop.
C9_WorkerSurvivesMalformed ==
    last.op = "on_message" =>
        /\ last.out # "raised"
        /\ \E t \in Threads : InLoop(t)

\* C10: of the command coroutines in flight that found the token absent or
\* inside the 60 s window when they started, at most one has sent a request
\* to the identity provider.
C10_OneRefreshRequest ==
    \A c, e \in Calls :
        (c # e /\ calls[c].stale /\ calls[e].stale) =>
            ~(calls[c].requested /\ calls[e].requested)

\* C11: a refresh that finds 60 s or more left on the cached token sends no
\* request and leaves the token and its expiry as they were; a request to
\* the identity provider is sent exactly when less than 60 s are left (a
\* client without a token has none left).
C11_FreshTokenNoRequest ==
    [][/\ \A c \in Calls :
             (calls[c].pc = "idle" /\ calls'[c].pc # "idle") =>
                 IF token_expires >= RefreshWindow
                 THEN /\ calls'[c].pc = "post"
                      /\ ~calls'[c].requested
                      /\ UNCHANGED <<token, token_expires>>
                 ELSE /\ calls'[c].pc = "cognito"
                      /\ calls'[c].requested
       /\ (start_co.pc = "idle" /\ start_co'.pc # "idle") =>
             IF token_expires >= RefreshWindow
             THEN start_co'.pc = "user" /\ UNCHANGED <<token, token_expires>>
             ELSE start_co'.pc = "cognito"]_vars

\* C11 witness: a command was sent with the cached token, which had exactly
\* 60 s left, without a request to the identity provider
C11_SentWithCachedToken ==
    \E c \in Calls :
        /\ calls[c].pc = "post"
        /\ ~calls[c].requested
        /\ token = IdToken
        /\ token_expires = RefreshWindow

\* C12: a device command never raises to its caller, whichever of its HTTP
\* calls fails.
C12_CommandNeverRaises ==
    last.op = "command" => last.out # "raised"

\* C13: a command POST is issued only once the credential step of its send
\* is over (the token was found fresh, or the answer of the refresh was
\* stored in that very step), and it carries the token that is cached then.
C13_PostAfterRefresh ==
    [][\A c \in Calls :
          (calls'[c].pc = "post" /\ calls[c].pc # "post") =>
              /\ token' # None
              /\ calls'[c].auth = token'
              /\ calls[c].pc = "idle" => token_expires >= RefreshWindow
              /\ calls[c].pc # "idle" =>
                    /\ calls[c].pc = "cognito"
                    /\ calls[c].requested
                    /\ token' = IdToken]_vars

\* C13 witness: a POST in flight that was issued after its send refreshed
\* the token, carrying the cached token
C13_PostedAfterRequest ==
    \E c \in Calls :
        /\ calls[c].pc = "post"
        /\ calls[c].requested
        /\ calls[c].auth = token

\* C14: set_temperature(t) sends "11,<t>", set_probe_temperature(t) sends
\* "14,<t>", set_timer_sec(s) sends "12," and s with zeros in front up to 5
\* digits, set_switch(v) sends the decimal string of v, shutdown_grill sends
\* "17", reset_timer "13" and the state-report request "90"; 225 gives
\* "11,225" and 300 s gives "12,00300".
C14_CommandEncoding ==
    [][LET zeros(x) == CASE x < 10 -> "0000" [] x < 100 -> "000"
                         [] x < 1000 -> "00" [] x < 10000 -> "0"
                         [] OTHER -> ""
           want(w, x) ==
               CASE w = "set_temperature" -> "11," \o ToString(x)
                 [] w = "set_probe_temperature" -> "14," \o ToString(x)
                 [] w = "set_switch" -> ToString(x)
                 [] w = "shutdown_grill" -> "17"
                 [] w = "set_timer_sec" -> "12," \o zeros(x) \o ToString(x)
                 [] w = "reset_timer" -> "13"
       IN /\ Encode("set_temperature", 225) = "11,225"
          /\ Encode("set_timer_sec", 300) = "12,00300"
          /\ Encode("update_state", 0) = "90"
          /\ last'.op = "call" =>
                \E c \in Calls :
                    /\ calls[c].pc = "idle"
                    /\ calls'[c].pc # "idle"
                    /\ calls'[c].thing = last'.id
                    /\ calls'[c].command =
                          want(last'.out.wrapper, last'.out.arg)]_vars

\* C14 witness: set_timer_sec was called with 300 and the command of the
\* send in flight is "12,00300"
C14_TimerPadded ==
    /\ last.op = "call"
    /\ last.out.wrapper = "set_timer_sec"
    /\ last.out.arg = 300
    /\ \E c \in Calls : calls[c].pc # "idle" /\ calls[c].command = "12,00300"

\* C15: a start() whose device-list fetch fails raises to the caller and
\* schedules no tick, starts no worker and leaves the device list alone; a
\* start() that succeeds replaces the device list by the fetched one and
\* schedules exactly one tick.
C15_StartAllOrNothing ==
    [][/\ start_co.pc # "idle" /\ start_co'.pc = "idle" => last'.op = "start"
       /\ last'.op = "start" =>
            /\ start_co.pc # "idle" /\ start_co'.pc = "idle"
            /\ UNCHANGED <<threads, mqtt_thread_running, mqtt_client,
                           loop_queue, main_co>>
            /\ IF last'.out = "raised"
               THEN UNCHANGED <<sensorVars, grills, grills_active, task, timers>>
               ELSE /\ last'.out = "done"
                    /\ grills' = Things
                    /\ timers' = timers + 1
                    /\ task' = "pending"]_vars

\* C15 witness: a start() has raised and nothing is scheduled
C15_StartRaised ==
    /\ last.op = "start"
    /\ last.out = "raised"
    /\ timers = 0
    /\ task = None
    /\ grills = <<>>

\* C16: the delay a tick hands to call_later for the next tick is shorter
\* than the validity the streaming url has left, so that a next tick that
\* fires exactly after that delay runs before the url's expiry instant.
C16_NextTickBeforeExpiry ==
    last.op = "tick" => last.out < MqttUrlRemaining

\* C17: after an entity refreshed from the store, every kind of entity
\* answers available = False when the grill has no stored state or its
\* stored connected flag is false.
C17_UnavailableUnlessConnected ==
    (/\ last.op = "read"
     /\ \/ last.out.state = Absent
        \/ ~The(last.out.state).connected)
    => \A e \in DOMAIN last.out.available : ~last.out.available[e]

\* C18: at every moment at most one worker thread is inside the receive
\* loop (loop_forever) of the client or on its way into it.
C18_OneWorker ==
    Cardinality({t \in Threads : threads[t].pc \in {"enter", "loop"}}) <= 1

\* C19: the handlers that run in the worker thread (on_connect,
\* on_subscribe, on_message) never insert, replace or delete an entry of
\* the state store themselves.
C19_WorkerLeavesStoreAlone ==
    [][last'.op \in {"on_connect", "on_subscribe", "on_message"} =>
          grill_status' = grill_status]_vars

C21_ConnectFailureTearsDown ==
    [][/\ last'.op = "on_connect_fail" =>
            /\ loop_queue' = Append(loop_queue, Item("kill", 0))
            /\ UNCHANGED <<mqtt_client, mqtt_url, mqtt_url_expires,
                           mqtt_thread_running, mqtt_thread_refreshing,
                           task, timers, main_co, start_co>>
            /\ \A t \in Threads :
                   threads'[t] = threads[t] \/ threads'[t].pc = "none"
       /\ (/\ loop_queue # <<>>
           /\ Head(loop_queue).op = "kill"
           /\ loop_queue' = Tail(loop_queue)
           /\ mqtt_thread_running) =>
            /\ ~mqtt_thread_running'
            /\ task' = None
            /\ mqtt_client' \in {None, "disconnecting"}]_vars

\* C21 witness: a connect failure of the running client was reported and
\* its kill() waits on the loop
C21_FailureHandedOver ==
    /\ last.op = "on_connect_fail"
    /\ mqtt_thread_running
    /\ loop_queue # <<>>
    /\ loop_queue[Len(loop_queue)].op = "kill"

\* C22: without any further start(), every connect failure is eventually
\* followed by a tick that sets the client up again from a url fetched
\* after the failure.
C22_FailureLeadsToReconnect ==
    (last.op = "on_connect_fail") ~>
        (last.op = "tick" /\ mqtt_client = "connecting")

\* C23: every tick that runs on a running client schedules exactly one next
\* tick when it ends, and the delay it hands to call_later is the larger of
\* 30 s and the validity the url has left at that moment.
C23_EveryTickSchedulesNext ==
    [][/\ (main_co.pc # "idle" /\ main_co'.pc = "idle" /\ mqtt_thread_running)
          => /\ last'.op = "tick"
             /\ timers' = timers + 1
             /\ task' = "pending"
       /\ last'.op = "tick"
          => /\ last'.out >= MinDelay
             /\ last'.out >= MqttUrlRemaining'
             /\ last'.out \in {MinDelay, MqttUrlRemaining'}]_vars

\* C24: the refreshing flag is set only while a tick is executing: whenever
\* no __main is between its first and its last statement the flag is false,
\* also after a tick whose re-establish step failed.
C24_RefreshingOnlyDuringTick ==
    main_co.pc = "idle" => ~mqtt_thread_refreshing

\* C25: a url request that fails leaves the cached url and its expiry as
\* they were, and the tick that made it still runs to its end and schedules
\* the next tick.
C25_FailedFetchKeepsLoop ==
    [][(last'.op \in {"tick", "tick_raised"} /\ last'.fetch = "failed") =>
          /\ mqtt_url' = mqtt_url
          /\ mqtt_url_expires' = mqtt_url_expires
          /\ last'.op = "tick"
          /\ task' = "pending"
          /\ timers' = timers + 1]_vars

\* C26: every successful connect removes the stored entry of each grill of
\* the device list and subscribes to "prod/thing/update/<id>" for each; from
\* then on the grill has no stored state (get_state_for_device is None)
\* until an update for that grill is stored.
C26_ConnectClearsStore ==
    [][/\ last'.op = "on_connect" =>
            /\ Len(last'.out.topics) = Len(grills)
            /\ \A i \in 1..Len(grills) :
                  /\ last'.out.topics[i] =
                        "prod/thing/update/" \o ToString(grills[i])
                  /\ grills[i] \notin DOMAIN grill_status'
                  /\ GetStateForDevice(grill_status', grills[i]) = Absent
            /\ subacks' = Len(grills)
            /\ \A d \in DOMAIN grill_status \ SeqToSet(grills) :
                  d \in DOMAIN grill_status' /\ grill_status'[d] = grill_status[d]
       /\ \A d \in Ids :
            (d \notin DOMAIN grill_status /\ d \in DOMAIN grill_status') =>
                (last'.op = "on_message" /\ last'.id = d
                   /\ last'.out # "raised")]_vars

\* C26 witness: a reconnect removed the state stored during the session
\* before
C26_ReconnectDroppedState ==
    /\ last.op = "on_connect"
    /\ last.out.had # {}
    /\ \A d \in last.out.had : GetStateForDevice(grill_status, d) = Absent

\* C27: every subscribe acknowledgement hands one state-report request to
\* the loop for each grill of the device list; a "90" command is sent only
\* by the loop running such a request, and such a request is handed over
\* only by an acknowledgement, which answers a subscription of the connected
\* client.
C27_AckRequestsStateReport ==
    [][LET requests(q) == {i \in 1..Len(q) : q[i].op = "update_state"}
       IN /\ last'.op = "on_subscribe" =>
               /\ mqtt_client = "connected"
               /\ subacks > 0
               /\ Len(loop_queue') = Len(loop_queue) + Len(grills)
               /\ \A i \in 1..Len(loop_queue) : loop_queue'[i] = loop_queue[i]
               /\ \A i \in 1..Len(grills) :
                     /\ loop_queue'[Len(loop_queue) + i].op = "update_state"
                     /\ loop_queue'[Len(loop_queue) + i].id = grills[i]
          /\ Cardinality(requests(loop_queue')) > Cardinality(requests(loop_queue))
               => last'.op = "on_subscribe"
          /\ \A c \in Calls :
               (calls[c].pc = "idle" /\ calls'[c].pc # "idle"
                  /\ calls'[c].command = "90") =>
                    /\ loop_queue # <<>>
                    /\ Head(loop_queue).op = "update_state"
                    /\ Head(loop_queue).id = calls'[c].thing
                    /\ loop_queue' = Tail(loop_queue)
          /\ (loop_queue # <<>> /\ Head(loop_queue).op = "update_state"
                /\ loop_queue' = Tail(loop_queue)) =>
                    \E c \in Calls :
                        /\ calls[c].pc = "idle"
                        /\ calls'[c].pc # "idle"
                        /\ calls'[c].command = "90"
                        /\ calls'[c].thing = Head(loop_queue).id]_vars

\* C27 witness: the state-report request of an acknowledged subscription
\* was posted
C27_StateReportRequested ==
    /\ last.op = "command"
    /\ last.out = "90"
    /\ mqtt_client = "connected"
    /\ subacks = 0

\* C28: when kill() has run to its end on a running client, the worker is
\* neither inside the receive loop nor on its way into it, and the client
\* holds no connection object any more.
C28_KillReleasesConnection ==
    (last.op = "kill" /\ last.out = "done") =>
        /\ \A t \in Threads : threads[t].pc \notin {"enter", "loop"}
        /\ mqtt_client = None

\* C29: after each processed update the activity flag is true exactly when
\* some grill of the device list has a stored status that is connected and
\* whose mode lies between igniting (4) and custom cook (7).
C29_ActiveIffWorkingGrill ==
    (last.op = "on_message" /\ last.out # "raised") =>
        (grills_active <=>
            \E d \in SeqToSet(grills) :
                /\ d \in DOMAIN grill_status
                /\ grill_status[d].status.connected
                /\ IGNITING <= grill_status[d].status.system_status
                /\ grill_status[d].status.system_status <= CUSTOM_COOK)

\* C30: no callback of the worker thread runs between the two assignments of
\* a token refresh (where the expiry is the new one and the token the old
\* one), and a refresh that raised left the token and its expiry as they
\* were.
C30_RefreshAtomic ==
    [][/\ last'.op = "on_message" => ~Halfway
       /\ (last'.op = "command" /\ last'.out = "raised") =>
             UNCHANGED <<token, token_expires>>]_vars

Stopped ==
    /\ ~mqtt_thread_running
    /\ mqtt_client \notin {"connecting", "connected"}
    /\ timers = 0
    /\ task # "pending"

\* C32: once kill() has returned while a maintenance tick was suspended at
\* an await, the client is stopped whenever no tick is executing any more
\* (start() is not called again).
C32_KillWinsOverTick ==
    []((last.op = "kill" /\ main_co.pc # "idle") =>
          [](main_co.pc = "idle" => Stopped))

\* the maintenance ticks that are pending (a call_later timer that has not
\* fired) or executing (a __main coroutine that has not ended)
Ticks == timers + (IF main_co.pc # "idle" THEN 1 ELSE 0)

\* C33: at most one maintenance tick is pending or executing, whatever
\* start() and kill() calls were made.
C33_OneTick == Ticks <= 1

\* C34: under fair scheduling of the loop and of the worker thread, a kill()
\* that waits for the worker stops waiting, and the worker threads that were
\* alive then have exited.
C34_KillTerminates ==
    (kill_waiting > 0) ~>
        (kill_waiting = 0 /\ \A t \in Threads : threads[t].pc = "none")

\* C35: whenever a worker thread calls loop_forever, self.mqtt_client is a
\* client object (not None) and, unless the client is being stopped, the
\* refreshing flag is clear: no tick is between dropping the old connection
\* and installing the new one.
C35_EntersOnInstalledClient ==
    [][\A t \in Threads :
          (threads[t].pc = "enter" /\ threads'[t].pc # "enter") =>
              /\ mqtt_client # None
              /\ mqtt_thread_running => ~mqtt_thread_refreshing]_vars

\* C36: a kill() that stopped a running client leaves the url expired, and
\* a tick that finds the url expired connects only after its request for a
\* new signed url was answered (never with the url it held before).
C36_NewUrlAfterKill ==
    [][/\ (last'.op = "kill" /\ last'.out # "already_dead") =>
             mqtt_url_expires' < RefreshWindow
       /\ (main_co.pc = "url" /\ last'.op = "tick"
             /\ mqtt_client' = "connecting") =>
             last'.fetch = "ok"]_vars

\* C37: a __send_command is started by an entity handler (set temperature,
\* hvac mode, switch on/off, timer set/reset) only when the entity holds a
\* grill state whose mode is in IGNITING..CUSTOM_COOK (4..7); in every other
\* state the handler starts none.
C37_CommandsGatedByMode ==
    [][(last'.op = "handler" /\ \E c \in Calls : calls'[c] # calls[c]) =>
          /\ last'.out.state # Absent
          /\ The(last'.out.state).system_status \in IGNITING..CUSTOM_COOK]_vars

\* C37 witness: a handler called in custom cook has started a command
C37_SentInCustomCook ==
    /\ last.op = "handler"
    /\ last.out.state # Absent
    /\ The(last.out.state).system_status = CUSTOM_COOK
    /\ \E c \in Calls : calls[c].pc # "idle" /\ calls[c].command = "12,00300"

\* C38: the heating-state sensor reports "over_temp" or "under_temp" only
\* when the state it reported before was "at_temp" or the same state and
\* the target is the one of the evaluation before; and in a cook mode, when
\* the target differs from the one of the evaluation before or the state
\* reported before was "idle" or "cool_down", it reports "heating" if
\* current <= target and "cooling" otherwise.
C38_HeatingStateMachine ==
    [][last'.op = "native_value" =>
          LET v == heating'.reported
              p == heating.reported
              t == heating.reported_target
          IN  /\ v \in {"over_temp", "under_temp"} =>
                    /\ p \in {"at_temp", v}
                    /\ Some(The(heating.grill_state).set) = t
              /\ (/\ heating.grill_state # Absent
                  /\ The(heating.grill_state).system_status \in CookModes
                  /\ \/ p \in {"idle", "cool_down"}
                     \/ t # Absent /\ Some(The(heating.grill_state).set) # t) =>
                    v = IF The(heating.grill_state).grill
                             <= The(heating.grill_state).set
                        THEN "heating" ELSE "cooling"]_vars

\* C40: reading the heating-state value again with no update of the grill
\* state since the read before returns the value of the read before and
\* leaves the remembered previous state as the first read left it.
C40_ReadsRepeat ==
    [][(last'.op = "native_value" /\ heating.reads >= 1) =>
          /\ heating'.reported = heating.reported
          /\ heating'.previous_state = heating.previous_state]_vars

\* C39: once an evaluation of the probe-state sensor saw alarm_fired, every
\* later evaluation reports "at_temp" until the target changes to a new
\* non-zero value, the grill leaves the active modes or the probe or the
\* grill becomes unavailable; and an evaluation with the probe temperature
\* at or above the fell-out threshold reports "fell_out", latched or not.
C39_AlarmLatched ==
    [][(last'.op = "probe_value" /\ probe.grill_accessory # Absent) =>
          LET acc == The(probe.grill_accessory).probe
          IN  /\ acc.get_temp >= FellOutTemp => probe'.reported = "fell_out"
              /\ (acc.get_temp < FellOutTemp /\ probe'.latched) =>
                    probe'.reported = "at_temp"]_vars

\* C39 (witness): an evaluation has just reported "at_temp" for a probe
\* that no longer reports alarm_fired and is below the fell-out threshold:
\* the alarm of an earlier evaluation is still latched.
C39_StillAtTemp ==
    /\ last.op = "probe_value"
    /\ last.out = "at_temp"
    /\ probe.latched
    /\ probe.grill_accessory # Absent
    /\ ~The(probe.grill_accessory).probe.alarm_fired
    /\ The(probe.grill_accessory).probe.get_temp < FellOutTemp

====
